---- MODULE Spec2Model ----
(***************************************************************************)
(* Model of engine/docker/docker.go: the docker engine's Setup, Create,    *)
(* Start, Wait, Tail and Destroy handlers, run against a container runtime *)
(* whose answers are recorded call by call.                                *)
(***************************************************************************)
EXTENDS Integers, Sequences, FiniteSets, TLC

(***************************************************************************)
(* Bounds of the model.                                                    *)
(***************************************************************************)
NumSteps == 2
NumVols == 2
MaxFaults == 1

MaxFiles == 2

MaxLog == 3

MaxChunk == 2

MaxRead == 2

VARIABLES spec, rt, last, waiter, tail

vars == <<spec, rt, last, waiter, tail>>

(***************************************************************************)
(* Errors.  An error returned by a runtime call carries the position of    *)
(* the call in the handler's call log, so that "the error of that call"    *)
(* is a value the model can compare.                                       *)
(***************************************************************************)
Nil == [kind |-> "nil", at |-> 0]

Err(kind, at) == [kind |-> kind, at |-> at]

ErrMissingConfiguration == Err("engine: missing docker configuration", 0)

ErrInvalidReference == Err("invalid reference format", 0)

IsErrImageNotFound(err) == err.kind = "ImageNotFound"

PullAlways == "PullAlways"

PullDefault == "PullDefault"

PullNever == "PullNever"

StepUIDs == 1..NumSteps

VolUIDs == 1..NumVols

NetworkUID == 0

(***************************************************************************)
(* The container runtime (docker.APIClient), as far as the handlers use    *)
(* it.  Natural is the answer of the runtime to a call in a given state;   *)
(* Effect is what a successful call changes.                               *)
(***************************************************************************)
EmptyRuntime ==
    [containers |-> [s \in StepUIDs |-> "absent"],
     volumes |-> {},
     network |-> FALSE]

Natural(r, op, id, imageMissing) ==
    CASE op = "ContainerCreate" ->
            IF imageMissing THEN "ImageNotFound"
            ELSE IF r.containers[id] # "absent" THEN "Conflict"
            ELSE "nil"
      [] op = "ContainerStart" ->
            IF r.containers[id] = "absent" THEN "NotFound" ELSE "nil"
      [] op = "ContainerKill" ->
            IF r.containers[id] = "absent" THEN "NotFound"
            ELSE IF r.containers[id] # "running" THEN "NotRunning"
            ELSE "nil"
      [] op = "ContainerRemove" ->
            IF r.containers[id] = "absent" THEN "NotFound" ELSE "nil"
      [] op = "NetworkRemove" ->
            IF r.network THEN "nil" ELSE "NotFound"
      [] op \in {"ContainerWait", "ContainerInspect", "ContainerLogs"} ->
            IF r.containers[id] = "absent" THEN "NotFound" ELSE "nil"
      [] OTHER -> "nil"

Effect(r, op, id) ==
    CASE op = "VolumeCreate" -> [r EXCEPT !.volumes = @ \cup {id}]
      [] op = "VolumeRemove" -> [r EXCEPT !.volumes = @ \ {id}]
      [] op = "NetworkCreate" -> [r EXCEPT !.network = TRUE]
      [] op = "NetworkRemove" -> [r EXCEPT !.network = FALSE]
      [] op = "ContainerCreate" -> [r EXCEPT !.containers[id] = "created"]
      [] op = "ContainerStart" -> [r EXCEPT !.containers[id] = "running"]
      [] op = "ContainerKill" -> [r EXCEPT !.containers[id] = "exited"]
      [] op = "ContainerRemove" -> [r EXCEPT !.containers[id] = "absent"]
      [] OTHER -> r

(***************************************************************************)
(* A handler in progress: the runtime, the calls issued so far and the     *)
(* value returned.  plan.faults are the positions of the calls that the    *)
(* runtime fails; plan.notFound is the number of container-create calls    *)
(* of the invocation that find the image missing.                          *)
(***************************************************************************)
Begin(r) == [rt |-> r, calls |-> <<>>, ret |-> Nil]

NumCalls(calls, op) == Cardinality({i \in 1..Len(calls) : calls[i].op = op})

Invoke(h, op, id, arg, plan) ==
    LET at == Len(h.calls) + 1
        missing == op = "ContainerCreate"
                   /\ NumCalls(h.calls, "ContainerCreate") < plan.notFound
        kind == IF at \in plan.faults THEN "Fail"
                ELSE Natural(h.rt, op, id, missing)
        err == IF kind = "nil" THEN Nil ELSE Err(kind, at)
    IN  [rt |-> IF kind = "nil" THEN Effect(h.rt, op, id) ELSE h.rt,
         calls |-> Append(h.calls, [op |-> op, id |-> id, arg |-> arg, err |-> err]),
         ret |-> h.ret]

LastErr(h) == h.calls[Len(h.calls)].err

Return(h, err) == [h EXCEPT !.ret = err]

(***************************************************************************)
(* Setup                                                                   *)
(***************************************************************************)
IsEphemeral_Always(vol) == TRUE

IsEphemeral(vol) == vol.emptyDir

RECURSIVE SetupVolumes_KeepsGoing(_, _, _)
SetupVolumes_KeepsGoing(h, i, plan) ==
    IF i > Len(spec.volumes) THEN [h |-> h, returned |-> FALSE]
    ELSE IF ~IsEphemeral(spec.volumes[i]) THEN SetupVolumes_KeepsGoing(h, i + 1, plan)
    ELSE SetupVolumes_KeepsGoing(
             Invoke(h, "VolumeCreate", spec.volumes[i].uid, <<"local">>, plan),
             i + 1, plan)

RECURSIVE SetupVolumes(_, _, _)
SetupVolumes(h, i, plan) ==
    IF i > Len(spec.volumes) THEN [h |-> h, returned |-> FALSE]
    ELSE IF ~IsEphemeral(spec.volumes[i]) THEN SetupVolumes(h, i + 1, plan)
    ELSE LET h2 == Invoke(h, "VolumeCreate", spec.volumes[i].uid, <<"local">>, plan)
         IN  IF LastErr(h2) # Nil
             THEN [h |-> Return(h2, LastErr(h2)), returned |-> TRUE]
             ELSE SetupVolumes(h2, i + 1, plan)

SetupHandler(r, plan) ==
    LET v == IF spec.docker THEN SetupVolumes(Begin(r), 1, plan)
             ELSE [h |-> Begin(r), returned |-> FALSE]
    IN  IF v.returned THEN v.h
        ELSE LET h2 == Invoke(v.h, "NetworkCreate", NetworkUID, <<"bridge">>, plan)
             IN  Return(h2, LastErr(h2))

(***************************************************************************)
(* Destroy                                                                 *)
(***************************************************************************)
RECURSIVE DestroyContainers_StopsOnError(_, _, _)
DestroyContainers_StopsOnError(h, i, plan) ==
    IF i > Len(spec.steps) THEN h
    ELSE LET h1 == Invoke(h, "ContainerKill", spec.steps[i], <<"9">>, plan)
             h2 == Invoke(h1, "ContainerRemove", spec.steps[i], <<"force", "volumes">>, plan)
         IN  IF LastErr(h2) # Nil THEN h2
             ELSE DestroyContainers_StopsOnError(h2, i + 1, plan)

RECURSIVE DestroyContainers_KillOnly(_, _, _)
DestroyContainers_KillOnly(h, i, plan) ==
    IF i > Len(spec.steps) THEN h
    ELSE DestroyContainers_KillOnly(
             Invoke(h, "ContainerKill", spec.steps[i], <<"9">>, plan), i + 1, plan)

RECURSIVE DestroyContainers(_, _, _)
DestroyContainers(h, i, plan) ==
    IF i > Len(spec.steps) THEN h
    ELSE LET h1 == Invoke(h, "ContainerKill", spec.steps[i], <<"9">>, plan)
             h2 == Invoke(h1, "ContainerRemove", spec.steps[i], <<"force", "volumes">>, plan)
         IN  DestroyContainers(h2, i + 1, plan)

RECURSIVE DestroyVolumes_KeepsGoing(_, _, _)
DestroyVolumes_KeepsGoing(h, i, plan) ==
    IF i > Len(spec.volumes) THEN [h |-> h, returned |-> FALSE]
    ELSE IF ~IsEphemeral(spec.volumes[i]) THEN DestroyVolumes_KeepsGoing(h, i + 1, plan)
    ELSE DestroyVolumes_KeepsGoing(
             Invoke(h, "VolumeRemove", spec.volumes[i].uid, <<"force">>, plan),
             i + 1, plan)

RECURSIVE DestroyVolumes(_, _, _)
DestroyVolumes(h, i, plan) ==
    IF i > Len(spec.volumes) THEN [h |-> h, returned |-> FALSE]
    ELSE IF ~IsEphemeral(spec.volumes[i]) THEN DestroyVolumes(h, i + 1, plan)
    ELSE LET h2 == Invoke(h, "VolumeRemove", spec.volumes[i].uid, <<"force">>, plan)
         IN  IF LastErr(h2) # Nil
             THEN [h |-> Return(h2, LastErr(h2)), returned |-> TRUE]
             ELSE DestroyVolumes(h2, i + 1, plan)

DestroyHandler_SwallowsNetworkError(r, plan) ==
    LET h1 == DestroyContainers(Begin(r), 1, plan)
        v == IF spec.docker THEN DestroyVolumes(h1, 1, plan)
             ELSE [h |-> h1, returned |-> FALSE]
    IN  IF v.returned THEN v.h
        ELSE Return(Invoke(v.h, "NetworkRemove", NetworkUID, <<>>, plan), Nil)

DestroyHandler_NetworkFirst(r, plan) ==
    LET h0 == Invoke(Begin(r), "NetworkRemove", NetworkUID, <<>>, plan)
        h1 == DestroyContainers(h0, 1, plan)
        v == IF spec.docker THEN DestroyVolumes(h1, 1, plan)
             ELSE [h |-> h1, returned |-> FALSE]
    IN  IF v.returned THEN v.h ELSE Return(v.h, LastErr(h0))

DestroyHandler(r, plan) ==
    LET h1 == DestroyContainers(Begin(r), 1, plan)
        v == IF spec.docker THEN DestroyVolumes(h1, 1, plan)
             ELSE [h |-> h1, returned |-> FALSE]
    IN  IF v.returned THEN v.h
        ELSE LET h2 == Invoke(v.h, "NetworkRemove", NetworkUID, <<>>, plan)
             IN  Return(h2, LastErr(h2))

(***************************************************************************)
(* parseImage.  An image string is a sequence of tokens: a name, then      *)
(* optionally ":" and a tag, then optionally "@" and a digest.  The        *)
(* reference library normalizes the names it knows; every other string     *)
(* does not parse.                                                         *)
(***************************************************************************)
Names == {"alpine", "myregistry.example.com/team/app"}

Tags == {"latest", "3.9", "stable"}

Digests == {"sha256:d"}

Domain(name) == IF name = "alpine" THEN "docker.io" ELSE "myregistry.example.com"

Path(name) == IF name = "alpine" THEN "library/alpine" ELSE "team/app"

NoRef == [ok |-> FALSE, name |-> "", tag |-> "", digest |-> ""]

Ref(name, tag, digest) == [ok |-> TRUE, name |-> name, tag |-> tag, digest |-> digest]

ParseNormalizedNamed(s) ==
    IF Len(s) = 0 \/ Len(s) \notin {1, 3, 5} THEN NoRef
    ELSE IF s[1] \notin Names THEN NoRef
    ELSE IF Len(s) = 1 THEN Ref(s[1], "", "")
    ELSE IF Len(s) = 3 /\ s[2] = ":" /\ s[3] \in Tags THEN Ref(s[1], s[3], "")
    ELSE IF Len(s) = 3 /\ s[2] = "@" /\ s[3] \in Digests THEN Ref(s[1], "", s[3])
    ELSE IF Len(s) = 5 /\ s[2] = ":" /\ s[3] \in Tags /\ s[4] = "@" /\ s[5] \in Digests
         THEN Ref(s[1], s[3], s[5])
    ELSE NoRef

TagNameOnly(named) ==
    IF named.tag = "" /\ named.digest = "" THEN [named EXCEPT !.tag = "latest"]
    ELSE named

String(named) ==
    <<Domain(named.name), "/", Path(named.name)>>
        \o (IF named.tag # "" THEN <<":", named.tag>> ELSE <<>>)
        \o (IF named.digest # "" THEN <<"@", named.digest>> ELSE <<>>)

HasSuffix(s, suffix) ==
    /\ Len(s) >= Len(suffix)
    /\ SubSeq(s, Len(s) - Len(suffix) + 1, Len(s)) = suffix

parseImage_NoError(s) ==
    LET named == TagNameOnly(ParseNormalizedNamed(s))
    IN  [canonical |-> String(named), domain |-> Domain(named.name),
         latest |-> HasSuffix(String(named), <<":", "latest">>),
         err |-> Nil]

parseImage(s) ==
    LET parsed == ParseNormalizedNamed(s)
        named == TagNameOnly(parsed)
    IN  IF ~parsed.ok
        THEN [canonical |-> <<>>, domain |-> "", latest |-> FALSE,
              err |-> ErrInvalidReference]
        ELSE [canonical |-> String(named), domain |-> Domain(named.name),
              latest |-> HasSuffix(String(named), <<":", "latest">>),
              err |-> Nil]

(***************************************************************************)
(* Create                                                                  *)
(***************************************************************************)
LookupFile(name) == name \in spec.files

PullBeforeCreate_IgnoresNever(policy, latest) ==
    policy = PullAlways \/ latest

PullBeforeCreate(policy, latest) ==
    policy = PullAlways \/ (policy = PullDefault /\ latest)

PullAndRecreate_AnyPolicy(err, policy) ==
    IsErrImageNotFound(err)

PullAndRecreate(err, policy) ==
    IsErrImageNotFound(err) /\ policy # PullNever

RECURSIVE CopyFiles_StopsAtUnknown(_, _, _, _)
CopyFiles_StopsAtUnknown(h, step, i, plan) ==
    IF i > Len(step.files) THEN Return(h, Nil)
    ELSE IF ~LookupFile(step.files[i]) THEN Return(h, Nil)
    ELSE LET h2 == Invoke(h, "CopyToContainer", step.uid, <<step.files[i]>>, plan)
         IN  IF LastErr(h2) # Nil THEN Return(h2, LastErr(h2))
             ELSE CopyFiles_StopsAtUnknown(h2, step, i + 1, plan)

RECURSIVE CopyFiles_KeepsGoing(_, _, _, _)
CopyFiles_KeepsGoing(h, step, i, plan) ==
    IF i > Len(step.files) THEN h
    ELSE IF ~LookupFile(step.files[i]) THEN CopyFiles_KeepsGoing(h, step, i + 1, plan)
    ELSE LET h2 == Invoke(h, "CopyToContainer", step.uid, <<step.files[i]>>, plan)
             h3 == IF LastErr(h2) # Nil /\ h.ret = Nil THEN Return(h2, LastErr(h2)) ELSE h2
         IN  CopyFiles_KeepsGoing(h3, step, i + 1, plan)

RECURSIVE CopyFiles(_, _, _, _)
CopyFiles(h, step, i, plan) ==
    IF i > Len(step.files) THEN Return(h, Nil)
    ELSE IF ~LookupFile(step.files[i]) THEN CopyFiles(h, step, i + 1, plan)
    ELSE LET h2 == Invoke(h, "CopyToContainer", step.uid, <<step.files[i]>>, plan)
         IN  IF LastErr(h2) # Nil THEN Return(h2, LastErr(h2))
             ELSE CopyFiles(h2, step, i + 1, plan)

CreateContainer(h, step, plan) ==
    LET h1 == Invoke(h, "ContainerCreate", step.uid, <<>>, plan)
    IN  IF PullAndRecreate(LastErr(h1), step.policy)
        THEN LET h2 == Invoke(h1, "ImagePull", 0, step.image, plan)
             IN  IF LastErr(h2) # Nil
                 THEN [h |-> Return(h2, LastErr(h2)), returned |-> TRUE, err |-> Nil]
                 ELSE LET h3 == Invoke(h2, "ContainerCreate", step.uid, <<>>, plan)
                      IN  [h |-> h3, returned |-> FALSE, err |-> LastErr(h3)]
        ELSE [h |-> h1, returned |-> FALSE, err |-> LastErr(h1)]

CreateHandler(r, step, plan) ==
    IF ~step.docker THEN Return(Begin(r), ErrMissingConfiguration)
    ELSE LET img == parseImage(step.image)
         IN  IF img.err # Nil THEN Return(Begin(r), img.err)
             ELSE LET pull == PullBeforeCreate(step.policy, img.latest)
                      h1 == IF pull
                            THEN Invoke(Begin(r), "ImagePull", 0, step.image, plan)
                            ELSE Begin(r)
                  IN  IF pull /\ LastErr(h1) # Nil THEN Return(h1, LastErr(h1))
                      ELSE LET c == CreateContainer(h1, step, plan)
                           IN  IF c.returned THEN c.h
                               ELSE IF c.err # Nil THEN Return(c.h, c.err)
                               ELSE CopyFiles(c.h, step, 1, plan)

(***************************************************************************)
(* Start                                                                   *)
(***************************************************************************)
StartHandler(r, step, plan) ==
    LET h == Invoke(Begin(r), "ContainerStart", step.uid, <<>>, plan)
    IN  Return(h, LastErr(h))

(***************************************************************************)
(* Wait.  ContainerWait hands back two channels at once; the select blocks *)
(* until the runtime delivers on one of them: the completion signal once   *)
(* the container is not running, the error signal when the wait request    *)
(* failed.  WaitBlock is the handler up to the select, WaitResume the      *)
(* handler from the select on; info is what ContainerInspect reports.      *)
(***************************************************************************)
NoInfo == [running |-> FALSE, exitCode |-> 0, oomKilled |-> FALSE]

NoState == [exited |-> FALSE, exitCode |-> 0, oomKilled |-> FALSE]

NoWait ==
    [pc |-> "idle", uid |-> 0, faults |-> {}, calls |-> <<>>, signal |-> "none",
     info |-> NoInfo, out |-> NoState, ret |-> Nil]

WaitSignals(r, w) ==
    (IF w.calls[1].err # Nil THEN {"error"} ELSE {})
    \cup (IF w.calls[1].err.kind # "NotFound" /\ r.containers[w.uid] # "running"
          THEN {"done"} ELSE {})

StateOf_FromRunning(info) ==
    [exited |-> ~info.running, exitCode |-> info.exitCode, oomKilled |-> info.oomKilled]

StateOf(info) ==
    [exited |-> TRUE, exitCode |-> info.exitCode, oomKilled |-> info.oomKilled]

WaitBlock(r, u, plan) ==
    LET h == Invoke(Begin(r), "ContainerWait", u, <<>>, plan)
    IN  [pc |-> "blocked", uid |-> u, faults |-> plan.faults, calls |-> h.calls,
         signal |-> "none", info |-> NoInfo, out |-> NoState, ret |-> Nil]

WaitResume(r, w, signal, info) ==
    LET plan == [faults |-> w.faults, notFound |-> 0]
        h == Invoke([rt |-> r, calls |-> w.calls, ret |-> Nil],
                    "ContainerInspect", w.uid, <<>>, plan)
    IN  IF LastErr(h) # Nil
        THEN [w EXCEPT !.pc = "done", !.calls = h.calls, !.signal = signal,
                       !.ret = LastErr(h)]
        ELSE [w EXCEPT !.pc = "done", !.calls = h.calls, !.signal = signal,
                       !.info = info, !.out = StateOf(info)]

(***************************************************************************)
(* Tail.  The runtime's combined log stream is a sequence of frames, each  *)
(* a header naming the stream and the payload size, then the payload.      *)
(* StdCopy reads a frame, and writes its payload to the pipe whichever     *)
(* stream it came from; a pipe write is synchronous: the payload stays in  *)
(* buf until reads have taken all of it, or the read end is closed.        *)
(***************************************************************************)
LogBytes == {"a", "b"}

Streams == {"stdout", "stderr"}

Frame(stream, payload) ==
    <<[stream |-> stream, size |-> Len(payload)]>> \o payload

Demux(wire) ==
    [stream |-> wire[1].stream,
     payload |-> SubSeq(wire, 2, 1 + wire[1].size),
     rest |-> SubSeq(wire, 2 + wire[1].size, Len(wire))]

Destination_StdoutOnly(stream) == IF stream = "stdout" THEN "wc" ELSE "discard"

Destination(stream) == "wc"

LogsOptions == <<"follow", "stdout", "stderr">>

NoTail ==
    [pc |-> "idle", uid |-> 0, calls |-> <<>>, ret |-> Nil,
     chunks |-> <<>>, wire |-> <<>>, ended |-> FALSE, logsOpen |-> FALSE,
     buf |-> <<>>, wc |-> "none", rc |-> "none",
     got |-> <<>>, result |-> "none", callerClosed |-> FALSE]

TailHandler(r, u, plan) ==
    LET h == Invoke(Begin(r), "ContainerLogs", u, LogsOptions, plan)
    IN  IF LastErr(h) # Nil
        THEN [NoTail EXCEPT !.pc = "failed", !.uid = u, !.calls = h.calls,
                            !.ret = LastErr(h)]
        ELSE [NoTail EXCEPT !.pc = "copying", !.uid = u, !.calls = h.calls,
                            !.logsOpen = TRUE, !.wc = "open", !.rc = "open",
                            !.result = "reading"]

(***************************************************************************)
(* The inputs of the model: the pipeline specs the engine is built with,   *)
(* the steps handed to Create and Start, and the runtime's fault plans.    *)
(***************************************************************************)
Payloads == {"f1", "f2"}

Specs ==
    {[docker |-> TRUE,
      volumes |-> [i \in VolUIDs |-> [uid |-> i, emptyDir |-> e[i]]],
      steps |-> [i \in StepUIDs |-> i],
      files |-> Payloads] : e \in [VolUIDs -> BOOLEAN]}
    \cup
    {[docker |-> FALSE, volumes |-> <<>>, steps |-> [i \in StepUIDs |-> i],
      files |-> Payloads]}

Images ==
    {<<>>, <<"Alpine!">>, <<"alpine">>, <<"alpine", ":", "latest">>,
     <<"alpine", ":", "3.9">>, <<"alpine", "@", "sha256:d">>,
     <<"alpine", ":", "latest", "@", "sha256:d">>,
     <<"myregistry.example.com/team/app", ":", "stable">>}

Policies == {PullAlways, PullDefault, PullNever}

NoStep == [uid |-> 0, docker |-> FALSE, image |-> <<>>, policy |-> PullDefault,
           files |-> <<>>]

StepsWith(uids, images, policies, files) ==
    {[uid |-> u, docker |-> TRUE, image |-> i, policy |-> p, files |-> f] :
        u \in uids, i \in images, p \in policies, f \in files}
    \cup {[NoStep EXCEPT !.uid = u] : u \in uids}

Plans(ncalls, notFound) ==
    {[faults |-> F, notFound |-> n] :
        F \in {G \in SUBSET (1..ncalls) : Cardinality(G) <= MaxFaults},
        n \in notFound}

Record(op, step, h) ==
    [op |-> op, step |-> step, calls |-> h.calls, ret |-> h.ret,
     afterDestroy |-> last.op = "Destroy" /\ last.ret = Nil]

NoRecord ==
    [op |-> "none", step |-> NoStep, calls |-> <<>>, ret |-> Nil,
     afterDestroy |-> FALSE]

Init ==
    /\ spec \in Specs
    /\ rt = EmptyRuntime
    /\ last = NoRecord
    /\ waiter = NoWait
    /\ tail = NoTail

Setup ==
    \E plan \in Plans(NumVols + 1, {0}) :
        LET h == SetupHandler(rt, plan)
        IN  /\ rt' = h.rt
            /\ last' = Record("Setup", NoStep, h)
            /\ UNCHANGED <<spec, waiter, tail>>

CreateWith(steps, ncalls, notFound) ==
    \E step \in steps, plan \in Plans(ncalls, notFound) :
        LET h == CreateHandler(rt, step, plan)
        IN  /\ rt' = h.rt
            /\ last' = Record("Create", step, h)
            /\ UNCHANGED <<spec, waiter, tail>>

StartWith(ncalls) ==
    \E u \in StepUIDs, plan \in Plans(ncalls, {0}) :
        LET step == [NoStep EXCEPT !.uid = u]
            h == StartHandler(rt, step, plan)
        IN  /\ rt' = h.rt
            /\ last' = Record("Start", step, h)
            /\ UNCHANGED <<spec, waiter, tail>>

DestroyWith(ncalls) ==
    \E plan \in Plans(ncalls, {0}) :
        LET h == DestroyHandler(rt, plan)
        IN  /\ rt' = h.rt
            /\ last' = Record("Destroy", NoStep, h)
            /\ UNCHANGED <<spec, waiter, tail>>

Destroy == DestroyWith(2 * NumSteps + NumVols + 1)

(***************************************************************************)
(* Spec: a run of the engine (Setup, Create, Start, Destroy in any order,  *)
(* any runtime call failing), with Create given steps of one image and no  *)
(* mounts.                                                                 *)
(***************************************************************************)
RunSteps == StepsWith(StepUIDs, {<<"alpine">>}, {PullDefault}, {<<>>})

Create == CreateWith(RunSteps, 4, 0..2)

Start == StartWith(1)

Next == Setup \/ Create \/ Start \/ Destroy

Spec == Init /\ [][Next]_vars

(***************************************************************************)
(* SpecEnv: the environment alone (Setup and Destroy in any order, any     *)
(* runtime call failing); no container is ever created.                    *)
(***************************************************************************)
NextEnv == Setup \/ Destroy

SpecEnv == Init /\ [][NextEnv]_vars

(***************************************************************************)
(* SpecTeardown: steps created and started with no runtime fault, then     *)
(* Destroy with any runtime call failing; Setup is never called.           *)
(***************************************************************************)
CreateClean == CreateWith(RunSteps, 0, {0})

StartClean == StartWith(0)

NextTeardown == CreateClean \/ StartClean \/ Destroy

SpecTeardown == Init /\ [][NextTeardown]_vars

(***************************************************************************)
(* SpecCreate: Create alone, for one step, over every image, pull policy   *)
(* and outcome of the runtime calls.                                       *)
(***************************************************************************)
InitCreate ==
    /\ spec \in {s \in Specs : ~s.docker}
    /\ rt = EmptyRuntime
    /\ last = NoRecord
    /\ waiter = NoWait
    /\ tail = NoTail

PullSteps == StepsWith({1}, Images, Policies, {<<>>, <<"f1">>})

CreateAny == CreateWith(PullSteps, 5, 0..2)

NextCreate == CreateAny

SpecCreate == InitCreate /\ [][NextCreate]_vars

(***************************************************************************)
(* Vocabulary of the properties: the calls of the last handler invocation. *)
(***************************************************************************)
CallsOf(op) == {i \in 1..Len(last.calls) : last.calls[i].op = op}

Min(S) == CHOOSE x \in S : \A y \in S : x <= y

FirstCreate == Min(CallsOf("ContainerCreate"))

CreateIssued == last.op = "Create" /\ CallsOf("ContainerCreate") # {}

PullsAfter(i) == {j \in CallsOf("ImagePull") : j > i}

CreatesAfter(i) == {j \in CallsOf("ContainerCreate") : j > i}

Resolved(image) == TagNameOnly(ParseNormalizedNamed(image))

(***************************************************************************)
(* C1, as stated: when the first container-create fails with image not     *)
(* found and the pull policy is not PullNever, exactly one pull is issued  *)
(* and then exactly one further container-create; any other create error,  *)
(* and a failure of the second create, is returned as it is with no        *)
(* further pull or create.                                                 *)
(***************************************************************************)
C1_FirstCreateOther ==
    CreateIssued =>
        LET c == FirstCreate
            e == last.calls[c].err
        IN  (e # Nil /\ ~(e.kind = "ImageNotFound" /\ last.step.policy # PullNever))
                => /\ last.ret = e
                   /\ Len(last.calls) = c

C1_SecondCreate ==
    CreateIssued =>
        LET c == FirstCreate
        IN  \A d \in CreatesAfter(c) :
                /\ CreatesAfter(c) = {d}
                /\ d = c + 2
                /\ last.calls[d].err # Nil
                    => (last.ret = last.calls[d].err /\ Len(last.calls) = d)

C1_Original ==
    /\ C1_FirstCreateOther
    /\ C1_SecondCreate
    /\ CreateIssued =>
        LET c == FirstCreate
            e == last.calls[c].err
        IN  (e.kind = "ImageNotFound" /\ last.step.policy # PullNever)
                => /\ PullsAfter(c) = {c + 1}
                   /\ CreatesAfter(c) = {c + 2}

(***************************************************************************)
(* C1, amended: in that case exactly one pull is issued; when the pull     *)
(* succeeds exactly one further container-create follows it, and when the  *)
(* pull fails its error is returned and no further create is issued.  The  *)
(* rest of C1 holds as stated.                                             *)
(***************************************************************************)
C1_Recovery ==
    /\ C1_FirstCreateOther
    /\ C1_SecondCreate
    /\ CreateIssued =>
        LET c == FirstCreate
            e == last.calls[c].err
        IN  (e.kind = "ImageNotFound" /\ last.step.policy # PullNever)
                => /\ PullsAfter(c) = {c + 1}
                   /\ IF last.calls[c + 1].err = Nil
                      THEN CreatesAfter(c) = {c + 2}
                      ELSE /\ CreatesAfter(c) = {}
                           /\ last.ret = last.calls[c + 1].err
                           /\ Len(last.calls) = c + 1

C1_Witness ==
    /\ CreateIssued
    /\ Cardinality(CallsOf("ContainerCreate")) = 2
    /\ Cardinality(CallsOf("ImagePull")) = 1
    /\ last.ret.kind = "ImageNotFound"
    /\ last.ret.at = 3

(***************************************************************************)
(* C2: under PullNever no pull is issued before the first container-create *)
(* (a pull can only belong to the recovery that follows a create), and in  *)
(* every Create the recovery, a pull after a create and a second create,   *)
(* happens at most once.                                                   *)
(***************************************************************************)
C2_PullNever ==
    last.op = "Create" =>
        /\ last.step.policy = PullNever =>
              \A p \in CallsOf("ImagePull") :
                  CallsOf("ContainerCreate") # {} /\ p > FirstCreate
        /\ CreateIssued =>
              /\ Cardinality(PullsAfter(FirstCreate)) <= 1
              /\ Cardinality(CreatesAfter(FirstCreate)) <= 1

C2_Witness ==
    /\ CreateIssued
    /\ last.step.policy = PullNever
    /\ last.step.image = <<"alpine", ":", "latest">>
    /\ last.ret.kind = "ImageNotFound"

(***************************************************************************)
(* C3: when Create reaches the pull decision (the step has a Docker        *)
(* configuration and its image resolves), a pull is issued before the      *)
(* first container-create iff the policy is PullAlways, or it is           *)
(* PullDefault and the tag of the resolved reference is "latest".          *)
(***************************************************************************)
C3_PullBeforeCreate ==
    (last.op = "Create" /\ last.step.docker /\ ParseNormalizedNamed(last.step.image).ok)
        => ((Len(last.calls) > 0 /\ last.calls[1].op = "ImagePull")
            <=> \/ last.step.policy = PullAlways
                \/ /\ last.step.policy = PullDefault
                   /\ Resolved(last.step.image).tag = "latest")

(***************************************************************************)
(* C4: a Create that fails before container creation returns that error    *)
(* and issues no container-create and no copy; with no Docker              *)
(* configuration or an image that does not resolve it issues no runtime    *)
(* call at all, and after a failed pre-create pull the pull is its only    *)
(* call.                                                                   *)
(***************************************************************************)
C4_FailsBeforeCreate ==
    last.op = "Create" =>
        /\ ~last.step.docker
              => (last.ret = ErrMissingConfiguration /\ last.calls = <<>>)
        /\ (last.step.docker /\ ~ParseNormalizedNamed(last.step.image).ok)
              => (last.ret = ErrInvalidReference /\ last.calls = <<>>)
        /\ (Len(last.calls) > 0 /\ last.calls[1].op = "ImagePull"
                /\ last.calls[1].err # Nil)
              => /\ last.ret = last.calls[1].err
                 /\ Len(last.calls) = 1
        /\ last.ret \in {ErrMissingConfiguration, ErrInvalidReference}
              => last.calls = <<>>

C4_Witness ==
    /\ last.op = "Create"
    /\ Len(last.calls) = 1
    /\ last.calls[1].op = "ImagePull"
    /\ last.ret = Err("Fail", 1)
    /\ last.step.files = <<"f1">>

(***************************************************************************)
(* Vocabulary of the properties about Setup and Destroy.                   *)
(***************************************************************************)
EphemeralUIDs ==
    LET eph == SelectSeq(spec.volumes, LAMBDA v : v.emptyDir)
    IN  [k \in 1..Len(eph) |-> eph[k].uid]

ContainerCalls == 2 * Len(spec.steps)

Failed(op) == {i \in CallsOf(op) : last.calls[i].err # Nil}

(***************************************************************************)
(* C5: Destroy issues, for every step of the spec in turn, a kill and then *)
(* a forced remove of the step's container, whether the container exists   *)
(* or not and whatever the earlier kills and removes answered, and the     *)
(* value it returns is never the error of a kill or of a container remove. *)
(***************************************************************************)
C5_ContainersCleaned ==
    last.op = "Destroy" =>
        /\ Len(last.calls) >= ContainerCalls
        /\ \A i \in 1..Len(spec.steps) :
              /\ last.calls[2 * i - 1].op = "ContainerKill"
              /\ last.calls[2 * i - 1].id = spec.steps[i]
              /\ last.calls[2 * i].op = "ContainerRemove"
              /\ last.calls[2 * i].id = spec.steps[i]
              /\ last.calls[2 * i].arg = <<"force", "volumes">>
        /\ CallsOf("ContainerKill") \cup CallsOf("ContainerRemove") = 1..ContainerCalls
        /\ last.ret # Nil =>
              /\ last.ret.at > ContainerCalls
              /\ last.ret = last.calls[last.ret.at].err

C5_Witness ==
    /\ last.op = "Destroy"
    /\ last.calls[1].err.kind = "NotFound"
    /\ last.calls[2].err.kind = "Fail"
    /\ last.calls[3].err = Nil
    /\ last.calls[4].err = Nil
    /\ rt.containers[2] = "absent"

(***************************************************************************)
(* C6: in Destroy the ephemeral volumes are removed in the order of the    *)
(* spec, and the first removal that fails ends Destroy: its error is the   *)
(* value returned and no call is issued after it.                          *)
(***************************************************************************)
C6_VolumeRemovalShortCircuits ==
    last.op = "Destroy" =>
        /\ \A p \in Failed("VolumeRemove") :
              /\ last.ret = last.calls[p].err
              /\ Len(last.calls) = p
        /\ \A p \in CallsOf("VolumeRemove") :
              /\ p > ContainerCalls
              /\ p - ContainerCalls <= Len(EphemeralUIDs)
              /\ last.calls[p].id = EphemeralUIDs[p - ContainerCalls]

C6_Witness ==
    /\ last.op = "Destroy"
    /\ Len(EphemeralUIDs) = NumVols
    /\ Len(last.calls) = ContainerCalls + 1
    /\ last.calls[ContainerCalls + 1].op = "VolumeRemove"
    /\ last.ret = Err("Fail", ContainerCalls + 1)
    /\ rt.volumes = VolUIDs

(***************************************************************************)
(* C7, as stated: every Destroy ends with the removal of the network, and  *)
(* returns the result of that removal.                                     *)
(***************************************************************************)
C7_Original ==
    last.op = "Destroy" =>
        /\ CallsOf("NetworkRemove") = {Len(last.calls)}
        /\ last.ret = last.calls[Len(last.calls)].err

(***************************************************************************)
(* C7, amended: whatever the kills and container removes answered, Destroy *)
(* ends with the removal of the network and returns its result, unless the *)
(* removal of an ephemeral volume failed; then the network removal is not  *)
(* attempted and the volume's error is returned.                           *)
(***************************************************************************)
C7_NetworkRemoval ==
    last.op = "Destroy" =>
        IF Failed("VolumeRemove") = {}
        THEN /\ CallsOf("NetworkRemove") = {Len(last.calls)}
             /\ last.ret = last.calls[Len(last.calls)].err
        ELSE /\ CallsOf("NetworkRemove") = {}
             /\ last.ret = last.calls[Len(last.calls)].err
             /\ last.calls[Len(last.calls)].op = "VolumeRemove"

C7_Witness ==
    /\ last.op = "Destroy"
    /\ Len(EphemeralUIDs) = NumVols
    /\ Failed("ContainerRemove") = CallsOf("ContainerRemove")
    /\ Failed("VolumeRemove") = {}
    /\ last.calls[Len(last.calls)].op = "NetworkRemove"
    /\ last.ret = Err("Fail", Len(last.calls))
    /\ rt.network

(***************************************************************************)
(* C8: a Destroy that follows a Destroy which returned no error returns no *)
(* error either, when the runtime fails none of its calls for a reason     *)
(* other than the resource not existing.                                   *)
(***************************************************************************)
C8_SecondDestroy ==
    (/\ last.op = "Destroy"
     /\ last.afterDestroy
     /\ \A i \in 1..Len(last.calls) : last.calls[i].err.kind # "Fail")
        => last.ret = Nil

(***************************************************************************)
(* C9: Setup creates the ephemeral volumes in the order of the spec; the   *)
(* first creation that fails ends Setup, which returns that error, issues  *)
(* no further call and leaves the volumes created before it in place; the  *)
(* network is created last, after every ephemeral volume of the spec was   *)
(* created, and its result is returned.                                    *)
(***************************************************************************)
C9_SetupFailFast ==
    last.op = "Setup" =>
        /\ \A p \in CallsOf("VolumeCreate") :
              /\ p <= Len(EphemeralUIDs)
              /\ last.calls[p].id = EphemeralUIDs[p]
        /\ \A p \in Failed("VolumeCreate") :
              /\ last.ret = last.calls[p].err
              /\ Len(last.calls) = p
              /\ CallsOf("NetworkCreate") = {}
              /\ \A q \in 1..(p - 1) :
                    /\ last.calls[q].err = Nil
                    /\ last.calls[q].id \in rt.volumes
        /\ \A n \in CallsOf("NetworkCreate") :
              /\ n = Len(last.calls)
              /\ n = Len(EphemeralUIDs) + 1
              /\ \A q \in 1..(n - 1) :
                    last.calls[q].op = "VolumeCreate" /\ last.calls[q].err = Nil
              /\ last.ret = last.calls[n].err

C9_Witness ==
    /\ last.op = "Setup"
    /\ Len(EphemeralUIDs) = NumVols
    /\ Len(last.calls) = 2
    /\ last.calls[1].err = Nil
    /\ last.ret = Err("Fail", 2)
    /\ rt.volumes = {EphemeralUIDs[1]}
    /\ ~rt.network

(***************************************************************************)
(* C10: every volume-create and volume-remove call of Setup and Destroy    *)
(* names a volume that the spec declares with EmptyDir set; no such call   *)
(* names an externally-mounted volume, and the runtime holds no volume     *)
(* other than ephemeral ones.                                              *)
(***************************************************************************)
C10_OnlyEphemeral ==
    /\ \A i \in CallsOf("VolumeCreate") \cup CallsOf("VolumeRemove") :
          \E k \in 1..Len(spec.volumes) :
              /\ spec.volumes[k].uid = last.calls[i].id
              /\ spec.volumes[k].emptyDir
    /\ \A v \in rt.volumes :
          \E k \in 1..Len(spec.volumes) :
              spec.volumes[k].uid = v /\ spec.volumes[k].emptyDir

C10_Witness ==
    /\ spec.docker
    /\ ~spec.volumes[1].emptyDir
    /\ spec.volumes[2].emptyDir
    /\ last.op = "Destroy"
    /\ last.afterDestroy = FALSE
    /\ CallsOf("VolumeRemove") # {}
    /\ last.ret = Nil

(***************************************************************************)
(* SpecWait: steps created and started with no runtime fault, containers   *)
(* exiting on their own, and Wait called on any step, its two runtime      *)
(* calls failing or not.                                                   *)
(***************************************************************************)
ExitCodes == {0, 1, 137}

Inspections(r, u) ==
    IF r.containers[u] = "running" THEN {[NoInfo EXCEPT !.running = TRUE]}
    ELSE {[running |-> FALSE, exitCode |-> c, oomKilled |-> o] :
            c \in ExitCodes, o \in BOOLEAN}

ContainerExits ==
    \E u \in StepUIDs :
        /\ rt.containers[u] = "running"
        /\ rt' = [rt EXCEPT !.containers[u] = "exited"]
        /\ UNCHANGED <<spec, last, waiter, tail>>

WaitCall ==
    \E u \in StepUIDs, plan \in Plans(2, {0}) :
        /\ waiter.pc # "blocked"
        /\ waiter' = WaitBlock(rt, u, plan)
        /\ UNCHANGED <<spec, rt, last, tail>>

WaitReturn ==
    /\ waiter.pc = "blocked"
    /\ \E signal \in WaitSignals(rt, waiter), info \in Inspections(rt, waiter.uid) :
          waiter' = WaitResume(rt, waiter, signal, info)
    /\ UNCHANGED <<spec, rt, last, tail>>

NextWait == CreateClean \/ StartClean \/ ContainerExits \/ WaitCall \/ WaitReturn

SpecWait == InitCreate /\ [][NextWait]_vars

WaitOps == [i \in 1..Len(waiter.calls) |-> waiter.calls[i].op]

(***************************************************************************)
(* C11: Wait inspects the container only after the wait has resolved, by   *)
(* the completion signal or by the error signal; the state it returns is   *)
(* exited with the exit code and out-of-memory flag of the inspection,     *)
(* also when the inspection shows the container running; and a Wait on a   *)
(* container that has already exited is never left blocked.                *)
(***************************************************************************)
C11_WaitState ==
    /\ waiter.pc = "blocked" =>
          /\ WaitOps = <<"ContainerWait">>
          /\ (waiter.calls[1].err = Nil /\ rt.containers[waiter.uid] = "exited"
                => "done" \in WaitSignals(rt, waiter))
    /\ waiter.pc = "done" =>
          /\ WaitOps = <<"ContainerWait", "ContainerInspect">>
          /\ waiter.signal \in {"done", "error"}
          /\ (waiter.ret = Nil =>
                waiter.out = [exited |-> TRUE, exitCode |-> waiter.info.exitCode,
                              oomKilled |-> waiter.info.oomKilled])

C11_Witness ==
    /\ waiter.pc = "done"
    /\ waiter.ret = Nil
    /\ waiter.info.running
    /\ waiter.out.exited

(***************************************************************************)
(* C12: when the runtime's wait call reports an error, Wait returns that   *)
(* error.                                                                  *)
(***************************************************************************)
C12_WaitErrorReturned ==
    waiter.pc = "done" /\ waiter.calls[1].err # Nil => waiter.ret = waiter.calls[1].err

(***************************************************************************)
(* SpecTail: Tail on a step whose container was created or not, the        *)
(* runtime delivering stdout and stderr chunks and ending the stream, the  *)
(* background task copying and closing, and the caller reading or closing  *)
(* the reader.  The task and a caller that reads are scheduled fairly; the *)
(* container owes no output and no end, and the caller owes no close.      *)
(***************************************************************************)
ChunkPayloads == UNION {[1..n -> LogBytes] : n \in 1..MaxChunk}

RECURSIVE Flatten(_)
Flatten(chunks) ==
    IF chunks = <<>> THEN <<>>
    ELSE chunks[1].payload \o Flatten(Tail(chunks))

Requested(opts) == {s \in Streams : \E i \in 1..Len(opts) : opts[i] = s}

CreateOne == CreateWith(StepsWith({1}, {<<"alpine">>}, {PullDefault}, {<<>>}), 0, {0})

TailCall ==
    \E u \in StepUIDs, plan \in Plans(1, {0}) :
        /\ tail.pc \in {"idle", "failed"}
        /\ tail' = TailHandler(rt, u, plan)
        /\ UNCHANGED <<spec, rt, last, waiter>>

LogsDeliver ==
    /\ tail.pc = "copying" /\ tail.logsOpen /\ ~tail.ended
    /\ \E s \in Requested(tail.calls[1].arg), p \in ChunkPayloads :
          /\ Len(Flatten(tail.chunks)) + Len(p) <= MaxLog
          /\ tail' = [tail EXCEPT !.chunks = Append(@, [stream |-> s, payload |-> p]),
                                  !.wire = @ \o Frame(s, p)]
    /\ UNCHANGED <<spec, rt, last, waiter>>

LogsEnd ==
    /\ tail.pc = "copying" /\ tail.logsOpen /\ ~tail.ended
    /\ tail' = [tail EXCEPT !.ended = TRUE]
    /\ UNCHANGED <<spec, rt, last, waiter>>

TaskRead ==
    /\ tail.pc = "copying" /\ tail.buf = <<>> /\ tail.wire # <<>>
    /\ LET d == Demux(tail.wire)
       IN  tail' = [tail EXCEPT !.buf = IF Destination(d.stream) = "wc"
                                        THEN d.payload ELSE <<>>,
                                !.wire = d.rest]
    /\ UNCHANGED <<spec, rt, last, waiter>>

TaskWriteFail ==
    /\ tail.pc = "copying" /\ tail.buf # <<>> /\ tail.rc = "closed"
    /\ tail' = [tail EXCEPT !.buf = <<>>, !.pc = "returned"]
    /\ UNCHANGED <<spec, rt, last, waiter>>

TaskEOF ==
    /\ tail.pc = "copying" /\ tail.buf = <<>> /\ tail.wire = <<>> /\ tail.ended
    /\ tail' = [tail EXCEPT !.pc = "returned"]
    /\ UNCHANGED <<spec, rt, last, waiter>>

TaskCloseWriter ==
    /\ tail.pc = "returned"
    /\ tail' = [tail EXCEPT !.logsOpen = FALSE, !.wc = "closed", !.pc = "wclosed"]
    /\ UNCHANGED <<spec, rt, last, waiter>>

TaskCloseReader ==
    /\ tail.pc = "wclosed"
    /\ tail' = [tail EXCEPT !.rc = "closed", !.pc = "done"]
    /\ UNCHANGED <<spec, rt, last, waiter>>

Read ==
    /\ tail.result = "reading" /\ ~tail.callerClosed
    /\ IF tail.buf # <<>>
       THEN \E k \in 1..Min({MaxRead, Len(tail.buf)}) :
               tail' = [tail EXCEPT !.got = @ \o SubSeq(tail.buf, 1, k),
                                    !.buf = SubSeq(@, k + 1, Len(@))]
       ELSE IF tail.rc = "closed" THEN tail' = [tail EXCEPT !.result = "closedpipe"]
       ELSE IF tail.wc = "closed" THEN tail' = [tail EXCEPT !.result = "eof"]
       ELSE FALSE
    /\ UNCHANGED <<spec, rt, last, waiter>>

CallerClose ==
    /\ tail.result = "reading" /\ ~tail.callerClosed /\ tail.rc = "open"
    /\ tail' = [tail EXCEPT !.rc = "closed", !.callerClosed = TRUE, !.result = "closed"]
    /\ UNCHANGED <<spec, rt, last, waiter>>

TaskStep == TaskRead \/ TaskWriteFail \/ TaskEOF \/ TaskCloseWriter \/ TaskCloseReader

NextTail ==
    \/ CreateOne \/ TailCall \/ LogsDeliver \/ LogsEnd
    \/ TaskRead \/ TaskWriteFail \/ TaskEOF \/ TaskCloseWriter \/ TaskCloseReader
    \/ Read \/ CallerClose

SpecTail == InitCreate /\ [][NextTail]_vars /\ WF_vars(TaskStep) /\ WF_vars(Read)

IsPrefix(s, t) == Len(s) <= Len(t) /\ s = SubSeq(t, 1, Len(s))

(***************************************************************************)
(* C13: whatever stdout and stderr chunks the combined log stream          *)
(* delivers, the bytes read from Tail's reader are at every moment a       *)
(* prefix of the chunks' payloads concatenated in arrival order, and once  *)
(* the caller has read to the end of the stream they are all of them.      *)
(***************************************************************************)
C13_RoundTrip ==
    /\ IsPrefix(tail.got, Flatten(tail.chunks))
    /\ tail.result \in {"eof", "closedpipe"} => tail.got = Flatten(tail.chunks)

C13_Witness ==
    /\ tail.result = "eof"
    /\ Len(tail.got) = MaxLog
    /\ \E i, j \in 1..Len(tail.chunks) :
          /\ i < j
          /\ tail.chunks[i].stream = "stderr" /\ tail.chunks[j].stream = "stdout"
          /\ tail.chunks[i].payload # tail.chunks[j].payload

(***************************************************************************)
(* C14: once the caller has closed the reader, or the log stream has       *)
(* ended, the background task eventually terminates, the log stream and    *)
(* both pipe ends closed.                                                  *)
(***************************************************************************)
C14_TaskTerminates ==
    (tail.callerClosed \/ tail.ended) ~> (tail.pc = "done")

(***************************************************************************)
(* C15: once the log stream has ended, a caller that keeps reading and     *)
(* does not close the reader eventually receives end-of-stream, with all   *)
(* delivered bytes read before it.                                         *)
(***************************************************************************)
C15_EndOfStream ==
    tail.ended ~>
        (tail.callerClosed \/ (tail.result = "eof" /\ tail.got = Flatten(tail.chunks)))

(***************************************************************************)
(* SpecMounts: Create of one step over every list of file mounts, with     *)
(* names the spec has a payload for and a name it has none for, the        *)
(* runtime calls failing or not and the image missing at first or not.     *)
(***************************************************************************)
MountNames == Payloads \cup {"fx"}

MountLists == UNION {[1..n -> MountNames] : n \in 0..MaxFiles}

MountSteps == StepsWith({1}, {<<"alpine", ":", "3.9">>}, {PullDefault}, MountLists)

CreateMounts == CreateWith(MountSteps, 3 + MaxFiles, 0..1)

NextMounts == CreateMounts

SpecMounts == InitCreate /\ [][NextMounts]_vars

Found == SelectSeq(last.step.files, LAMBDA n : n \in spec.files)

Copies ==
    LET c == SelectSeq(last.calls, LAMBDA x : x.op = "CopyToContainer")
    IN  [k \in 1..Len(c) |-> c[k].arg[1]]

(***************************************************************************)
(* C16: in Create no copy-to-container call is issued for a mount whose    *)
(* payload name the spec does not have, and such a mount causes no error:  *)
(* whatever Create returns is the missing-configuration error or the error *)
(* of one of its runtime calls; a Create that returns no error has issued  *)
(* exactly one copy for each mount whose payload is found, in list order,  *)
(* the mounts after an unknown one included.                               *)
(***************************************************************************)
C16_UnknownMountSkipped ==
    last.op = "Create" =>
        /\ \A c \in CallsOf("CopyToContainer") : last.calls[c].arg[1] \in spec.files
        /\ last.ret # Nil =>
              \/ last.ret = ErrMissingConfiguration
              \/ \E i \in 1..Len(last.calls) : last.calls[i].err = last.ret
        /\ last.ret = Nil /\ last.step.docker => Copies = Found

C16_Witness ==
    /\ last.op = "Create"
    /\ last.ret = Nil
    /\ Len(last.step.files) = 2
    /\ last.step.files[1] \notin spec.files
    /\ last.step.files[2] \in spec.files
    /\ Copies = <<last.step.files[2]>>

(***************************************************************************)
(* C17: in Create every copy-to-container call comes after a successful    *)
(* container-create, the copies follow the order of the mount list, a      *)
(* failing copy is the last call of Create and its error is what Create    *)
(* returns, and Create never kills or removes the container: after a       *)
(* Create that reached the copies the container is there.                  *)
(***************************************************************************)
C17_CopyOrderFailFast ==
    last.op = "Create" =>
        /\ \A c \in CallsOf("CopyToContainer") :
              \E k \in CallsOf("ContainerCreate") : k < c /\ last.calls[k].err = Nil
        /\ IsPrefix(Copies, Found)
        /\ \A c \in Failed("CopyToContainer") :
              c = Len(last.calls) /\ last.ret = last.calls[c].err
        /\ CallsOf("ContainerKill") \cup CallsOf("ContainerRemove") = {}
        /\ CallsOf("CopyToContainer") # {} => rt.containers[last.step.uid] = "created"

C17_Witness ==
    /\ last.op = "Create"
    /\ Failed("CopyToContainer") # {}
    /\ Len(Copies) < Len(Found)
    /\ rt.containers[last.step.uid] = "created"

(***************************************************************************)
(* C18: within one Destroy the kill of each step's container precedes its  *)
(* remove, every kill and every container remove precedes every volume     *)
(* removal and the network removal, and the network removal is issued only *)
(* after a successful removal of every ephemeral volume of the spec.       *)
(***************************************************************************)
C18_DestroyOrder ==
    last.op = "Destroy" =>
        /\ \A i \in 1..Len(spec.steps) :
              \E k \in CallsOf("ContainerKill"), r \in CallsOf("ContainerRemove") :
                  /\ last.calls[k].id = spec.steps[i]
                  /\ last.calls[r].id = spec.steps[i]
                  /\ k < r
        /\ \A c \in CallsOf("ContainerKill") \cup CallsOf("ContainerRemove") :
              \A v \in CallsOf("VolumeRemove") \cup CallsOf("NetworkRemove") : c < v
        /\ \A n \in CallsOf("NetworkRemove") :
              \A i \in 1..Len(spec.volumes) :
                  spec.volumes[i].emptyDir =>
                      \E v \in CallsOf("VolumeRemove") :
                          /\ v < n
                          /\ last.calls[v].id = spec.volumes[i].uid
                          /\ last.calls[v].err = Nil

C18_Witness ==
    /\ last.op = "Destroy"
    /\ \A i \in 1..Len(spec.volumes) : spec.volumes[i].emptyDir
    /\ Len(spec.volumes) = NumVols
    /\ Cardinality(CallsOf("VolumeRemove")) = NumVols
    /\ CallsOf("NetworkRemove") = {Len(last.calls)}

(***************************************************************************)
(* SpecRun: a whole run.  Setup, Create with one file mount, Start and     *)
(* Destroy in any order and number, each runtime call of Setup, Create and *)
(* Start failing or not, so that a Create can fail before its container    *)
(* exists or, at the copy, after; in Destroy the kill and the remove of    *)
(* the first container fail or not.                                        *)
(***************************************************************************)
CopySteps == StepsWith(StepUIDs, {<<"alpine", ":", "3.9">>}, {PullDefault}, {<<"f1">>})

CreateRun == CreateWith(CopySteps, 2, {0})

DestroyRun == DestroyWith(2)

NextRun == Setup \/ CreateRun \/ Start \/ DestroyRun

SpecRun == Init /\ [][NextRun]_vars

Removals == CallsOf("ContainerRemove") \cup CallsOf("VolumeRemove") \cup CallsOf("NetworkRemove")

(***************************************************************************)
(* C19: containers, ephemeral volumes and the network are created under    *)
(* the identifiers Destroy removes, so after any Setup, Create and Start   *)
(* calls, failed ones included, a Destroy none of whose removal calls      *)
(* fails for another reason than the resource not being there leaves no    *)
(* container, no volume and no network behind.                             *)
(***************************************************************************)
C19_NothingRemains ==
    last.op = "Destroy"
      /\ (\A c \in Removals : last.calls[c].err.kind \in {"nil", "NotFound"})
    => rt = EmptyRuntime

C19_Witness ==
    /\ last.op = "Destroy"
    /\ \A c \in Removals : last.calls[c].err = Nil
    /\ \A i \in 1..Len(spec.volumes) : spec.volumes[i].emptyDir
    /\ Len(spec.volumes) = NumVols
    /\ rt = EmptyRuntime

(***************************************************************************)
(* C20: for every image that parses, parseImage reports latest exactly     *)
(* when the tag of the canonical reference, the default tag filled in, is  *)
(* "latest", whether or not a digest follows it.                           *)
(***************************************************************************)
C20_LatestIffTag ==
    last.op = "Create" /\ last.step.docker /\ parseImage(last.step.image).err = Nil
    => (parseImage(last.step.image).latest <=> Resolved(last.step.image).tag = "latest")

====
